---- MODULE Spec2Model ----
(***************************************************************************)
(* A model of the lsm-tree-kv storage engine: the Memtable                 *)
(* (src/src/memtable.rs), the SSTable writer and reader                    *)
(* (src/src/sstable.rs) and the LSMTree orchestrator (src/src/lsm.rs).     *)
(*                                                                         *)
(* Byte strings (Vec<u8>, file contents) are kept byte-exact in run-length *)
(* form: a sequence of runs <<b, n>> (byte b repeated n >= 1 times), with  *)
(* adjacent runs of different bytes, so that two byte strings are equal    *)
(* exactly when their representations are equal.  This keeps a 4096-byte   *)
(* payload, which is what crosses the flush threshold, a single run.       *)
(***************************************************************************)
EXTENDS Integers, Sequences, FiniteSets, Bags, TLC

(***************************************************************************)
(* Byte strings                                                            *)
(***************************************************************************)

\* vec![b; n]
Repeat(b, n) == IF n = 0 THEN <<>> ELSE << <<b, n>> >>

\* Vec::len / file length: the sum of the run lengths (the run lengths, taken
\* by position, form a bag)
BLen(s) == BagCardinality([i \in 1..Len(s) |-> s[i][2]])

\* write_all: the bytes t appended to the bytes s
BCat(s, t) ==
  IF s = <<>> THEN t
  ELSE IF t = <<>> THEN s
  ELSE IF s[Len(s)][1] = t[1][1]
       THEN SubSeq(s, 1, Len(s) - 1)
              \o << <<t[1][1], s[Len(s)][2] + t[1][2]>> >>
              \o Tail(t)
       ELSE s \o t

\* the parts of a tuple of byte strings, one after the other
RECURSIVE Cat(_)
Cat(parts) ==
  IF Len(parts) = 0 THEN <<>>
  ELSE IF Len(parts) = 1 THEN parts[1]
  ELSE LET halves == << Cat(SubSeq(parts, 1, Len(parts) \div 2)),
                        Cat(SubSeq(parts, Len(parts) \div 2 + 1, Len(parts))) >>
       IN BCat(halves[1], halves[2])

\* the bytes of s from position n on (seek to n; the empty string when n is
\* at or past the end)
RECURSIVE BDrop(_, _)
BDrop(s, n) ==
  IF n = 0 \/ Len(s) = 0 THEN s
  ELSE IF Len(s) = 1
       THEN IF s[1][2] <= n THEN <<>> ELSE << <<s[1][1], s[1][2] - n>> >>
  ELSE LET h == Len(s) \div 2
           parts == <<SubSeq(s, 1, h), SubSeq(s, h + 1, Len(s))>>
           l == BLen(parts[1])
       IN IF l <= n THEN BDrop(parts[2], n - l)
          ELSE BDrop(parts[1], n) \o parts[2]

\* the first n bytes of s (all of s when it is shorter)
RECURSIVE BTake(_, _)
BTake(s, n) ==
  IF n = 0 \/ Len(s) = 0 THEN <<>>
  ELSE IF Len(s) = 1
       THEN IF s[1][2] <= n THEN s ELSE << <<s[1][1], n>> >>
  ELSE LET h == Len(s) \div 2
           parts == <<SubSeq(s, 1, h), SubSeq(s, h + 1, Len(s))>>
           l == BLen(parts[1])
       IN IF n <= l THEN BTake(parts[1], n)
          ELSE parts[1] \o BTake(parts[2], n - l)

\* s[off .. off + n), positions counted from 0
BSub(s, off, n) == BTake(BDrop(s, off), n)

\* a literal byte string
FromSeq(q) == Cat([i \in 1..Len(q) |-> Repeat(q[i], 1)])

\* the plain sequence of the bytes of s (used on short strings only)
RECURSIVE Expand(_)
Expand(s) ==
  IF s = <<>> THEN <<>>
  ELSE IF s[1][2] = 1 THEN <<s[1][1]>> \o Expand(Tail(s))
  ELSE <<s[1][1]>> \o Expand(<< <<s[1][1], s[1][2] - 1>> >> \o Tail(s))

\* Ord for Vec<u8>: byte-lexicographic, a proper prefix is smaller
RECURSIVE SeqLess(_, _)
SeqLess(a, b) ==
  IF b = <<>> THEN FALSE
  ELSE IF a = <<>> THEN TRUE
  ELSE IF a[1] # b[1] THEN a[1] < b[1]
  ELSE SeqLess(Tail(a), Tail(b))

\* an order that compares the lengths first
KeyLess_ShortLex(a, b) ==
  BLen(a) < BLen(b) \/ (BLen(a) = BLen(b) /\ SeqLess(Expand(a), Expand(b)))

KeyLess(a, b) == SeqLess(Expand(a), Expand(b))

\* u32::to_le_bytes
U32LE(n) ==
  FromSeq(<< n % 256, (n \div 256) % 256, (n \div 65536) % 256,
             (n \div 16777216) % 256 >>)

\* u64::to_le_bytes
U64LE(n) == Cat(<<U32LE(n), Repeat(0, 4)>>)

\* from_le_bytes: IsSmall tells that the little-endian integer is below 2^24,
\* which is beyond every length and offset of a modelled file; LEVal is its
\* value then.
IsSmall(s) == \A i \in 4..Len(Expand(s)) : Expand(s)[i] = 0

LEVal(s) ==
  LET e == Expand(s) IN e[1] + 256 * e[2] + 65536 * e[3]

\* u64::from_le_bytes of an offset at or above 2^63: lseek rejects it
IsNegativeOff(s) == Expand(s)[8] >= 128

(***************************************************************************)
(* Value, Option and Result                                                *)
(***************************************************************************)

\* Value::Some(v) and Value::Tombstone
Some(v) == [tag |-> "Some", v |-> v]

Tombstone == [tag |-> "Tombstone"]

\* Option::None
None == [tag |-> "None"]

\* Result: Ok(x), Err(Error::Io), Err(Error::Corruption), and a panic
Ok(x) == [tag |-> "Ok", val |-> x]

ErrIo == [tag |-> "Io"]

ErrCorruption == [tag |-> "Corruption"]

Panic == [tag |-> "Panic"]

(***************************************************************************)
(* Memtable                                                                *)
(***************************************************************************)

\* BTreeMap::new
EmptyMap == [k \in {} |-> Tombstone]

\* BTreeMap::insert
MapInsert(f, k, v) == [x \in (DOMAIN f) \cup {k} |-> IF x = k THEN v ELSE f[x]]

\* the keys of S in ascending order: the iteration order of a BTreeMap
RECURSIVE SortKeys(_)
SortKeys(S) ==
  IF S = {} THEN <<>>
  ELSE LET m == CHOOSE k \in S : \A j \in S \ {k} : KeyLess(k, j)
       IN <<m>> \o SortKeys(S \ {m})

Memtable_new == [data |-> EmptyMap, size_bytes |-> 0]

\* a put that does not take the replaced payload off the accumulator
Memtable_put_NoSubtract(m, key, value) ==
  LET size ==
        IF key \in DOMAIN m.data
        THEN m.size_bytes + BLen(value)
        ELSE m.size_bytes + BLen(key) + BLen(value)
  IN [data |-> MapInsert(m.data, key, Some(value)), size_bytes |-> size]

Memtable_put(m, key, value) ==
  LET size ==
        IF key \in DOMAIN m.data
        THEN (IF m.data[key].tag = "Some"
              THEN m.size_bytes - BLen(m.data[key].v)
              ELSE m.size_bytes) + BLen(value)
        ELSE m.size_bytes + BLen(key) + BLen(value)
  IN [data |-> MapInsert(m.data, key, Some(value)), size_bytes |-> size]

Memtable_get(m, key) == IF key \in DOMAIN m.data THEN m.data[key] ELSE None

\* a delete that records nothing for a key the memtable does not hold
Memtable_delete_AbsentNoop(m, key) ==
  IF key \in DOMAIN m.data
  THEN IF m.data[key].tag = "Some"
       THEN [data |-> MapInsert(m.data, key, Tombstone),
             size_bytes |-> m.size_bytes - BLen(m.data[key].v)]
       ELSE m
  ELSE m

\* a delete without the early return: a tombstone is taken for a new key
Memtable_delete_CountsAgain(m, key) ==
  IF key \in DOMAIN m.data /\ m.data[key].tag = "Some"
  THEN [data |-> MapInsert(m.data, key, Tombstone),
        size_bytes |-> m.size_bytes - BLen(m.data[key].v)]
  ELSE [data |-> MapInsert(m.data, key, Tombstone),
        size_bytes |-> m.size_bytes + BLen(key)]

Memtable_delete(m, key) ==
  IF key \in DOMAIN m.data
  THEN IF m.data[key].tag = "Some"
       THEN [data |-> MapInsert(m.data, key, Tombstone),
             size_bytes |-> m.size_bytes - BLen(m.data[key].v)]
       ELSE m
  ELSE [data |-> MapInsert(m.data, key, Tombstone),
        size_bytes |-> m.size_bytes + BLen(key)]

\* an iteration that leaves the tombstones out
Memtable_iter_LiveOnly(m) ==
  LET ks == SortKeys({k \in DOMAIN m.data : m.data[k] # Tombstone})
  IN [i \in 1..Len(ks) |-> <<ks[i], m.data[ks[i]]>>]

\* the (key, value) pairs in ascending key order
Memtable_iter(m) ==
  LET ks == SortKeys(DOMAIN m.data)
  IN [i \in 1..Len(ks) |-> <<ks[i], m.data[ks[i]]>>]

Memtable_len(m) == Cardinality(DOMAIN m.data)

Memtable_is_empty(m) == DOMAIN m.data = {}

Memtable_size_bytes(m) == m.size_bytes

(***************************************************************************)
(* SSTable writer                                                          *)
(***************************************************************************)

\* "SSTABLE1" as a little-endian u64
MAGIC_NUMBER == FromSeq(<<49, 76, 69, 66, 65, 84, 83, 83>>)

FOOTER_SIZE == 32

\* writer: the bytes handed to the buffered writer so far
SSTableBuilder_new ==
  [writer |-> <<>>, index |-> <<>>, current_offset |-> 0, num_entries |-> 0]

\* an add that leaves the tombstone flag byte out of current_offset
SSTableBuilder_add_NoFlagCount(b, key, value) ==
  LET keyPart == <<U32LE(BLen(key)), key>>
      valPart ==
        IF value.tag = "Some"
        THEN <<U32LE(BLen(value.v)), value.v, Repeat(0, 1)>>
        ELSE <<U32LE(0), Repeat(1, 1)>>
      adv == IF value.tag = "Some" THEN 4 + BLen(value.v) ELSE 4
  IN [writer |-> Cat(<<b.writer>> \o keyPart \o valPart),
      index |-> Append(b.index, <<key, b.current_offset>>),
      current_offset |-> b.current_offset + 4 + BLen(key) + adv,
      num_entries |-> b.num_entries + 1]

\* an add that takes a value of length 0 for a tombstone
SSTableBuilder_add_EmptyAsTombstone(b, key, value) ==
  LET keyPart == <<U32LE(BLen(key)), key>>
      valPart ==
        IF value.tag = "Some" /\ BLen(value.v) > 0
        THEN <<U32LE(BLen(value.v)), value.v, Repeat(0, 1)>>
        ELSE <<U32LE(0), Repeat(1, 1)>>
      adv == IF value.tag = "Some" THEN 4 + BLen(value.v) + 1 ELSE 4 + 1
  IN [writer |-> Cat(<<b.writer>> \o keyPart \o valPart),
      index |-> Append(b.index, <<key, b.current_offset>>),
      current_offset |-> b.current_offset + 4 + BLen(key) + adv,
      num_entries |-> b.num_entries + 1]

SSTableBuilder_add(b, key, value) ==
  LET keyPart == <<U32LE(BLen(key)), key>>
      valPart ==
        IF value.tag = "Some"
        THEN <<U32LE(BLen(value.v)), value.v, Repeat(0, 1)>>
        ELSE <<U32LE(0), Repeat(1, 1)>>
      adv == IF value.tag = "Some" THEN 4 + BLen(value.v) + 1 ELSE 4 + 1
  IN [writer |-> Cat(<<b.writer>> \o keyPart \o valPart),
      index |-> Append(b.index, <<key, b.current_offset>>),
      current_offset |-> b.current_offset + 4 + BLen(key) + adv,
      num_entries |-> b.num_entries + 1]

\* the index block: for each index entry key_len, key, offset
RECURSIVE IndexBlock(_)
IndexBlock(index) ==
  IF index = <<>> THEN <<>>
  ELSE Cat(<<U32LE(BLen(index[1][1])), index[1][1], U64LE(index[1][2]),
             IndexBlock(Tail(index))>>)

\* index_len as finish counts it
RECURSIVE IndexLen(_)
IndexLen(index) ==
  IF index = <<>> THEN 0
  ELSE 4 + BLen(index[1][1]) + 8 + IndexLen(Tail(index))

Footer(b) ==
  Cat(<<U64LE(b.current_offset), U32LE(IndexLen(b.index)),
        U32LE(b.num_entries), MAGIC_NUMBER, U64LE(0)>>)

\* the bytes of the finished file
SSTableBuilder_finish(b) == Cat(<<b.writer, IndexBlock(b.index), Footer(b)>>)

(***************************************************************************)
(* SSTable reader                                                          *)
(***************************************************************************)

\* an index parse that keeps the first offset read for a key
RECURSIVE ParseIndex_KeepFirst(_, _, _)
ParseIndex_KeepFirst(buf, pos, index) ==
  LET len == BLen(buf) IN
  IF ~(pos < len) THEN Ok(index)
  ELSE IF pos + 4 > len THEN Panic
  ELSE LET kl == BSub(buf, pos, 4) IN
       IF ~IsSmall(kl) THEN Panic
       ELSE LET key_len == LEVal(kl) IN
            IF pos + 4 + key_len > len THEN Panic
            ELSE IF pos + 4 + key_len + 8 > len THEN Panic
            ELSE ParseIndex_KeepFirst(buf, pos + 4 + key_len + 8,
                   IF BSub(buf, pos + 4, key_len) \in DOMAIN index THEN index
                   ELSE MapInsert(index, BSub(buf, pos + 4, key_len),
                                  BSub(buf, pos + 4 + key_len, 8)))

\* the loop that parses the index block; a slice that runs past the end of
\* index_buf panics
RECURSIVE ParseIndex(_, _, _)
ParseIndex(buf, pos, index) ==
  LET len == BLen(buf) IN
  IF ~(pos < len) THEN Ok(index)
  ELSE IF pos + 4 > len THEN Panic
  ELSE LET kl == BSub(buf, pos, 4) IN
       IF ~IsSmall(kl) THEN Panic
       ELSE LET key_len == LEVal(kl) IN
            IF pos + 4 + key_len > len THEN Panic
            ELSE IF pos + 4 + key_len + 8 > len THEN Panic
            ELSE ParseIndex(buf, pos + 4 + key_len + 8,
                            MapInsert(index, BSub(buf, pos + 4, key_len),
                                      BSub(buf, pos + 4 + key_len, 8)))

\* a magic check that compares the low four bytes only
MagicOk_Low32(magic) == BSub(magic, 0, 4) = BSub(MAGIC_NUMBER, 0, 4)

\* magic == MAGIC_NUMBER
MagicOk(magic) == magic = MAGIC_NUMBER

\* SSTable::open on a file with the bytes `file`; the reader keeps the index
\* (key -> the 8 bytes of the offset) and the 4 bytes of num_entries
SSTable_open(path, file) ==
  LET flen == BLen(file) IN
  IF flen < FOOTER_SIZE THEN ErrIo
  ELSE
    LET footer_buf == BSub(file, flen - FOOTER_SIZE, FOOTER_SIZE)
        index_offset == BSub(footer_buf, 0, 8)
        index_len == BSub(footer_buf, 8, 4)
        num_entries == BSub(footer_buf, 12, 4)
        magic == BSub(footer_buf, 16, 8)
    IN
    IF ~MagicOk(magic) THEN ErrCorruption
    ELSE IF IsNegativeOff(index_offset) THEN ErrIo
    ELSE IF ~IsSmall(index_len) THEN ErrIo
    ELSE IF ~IsSmall(index_offset)
         THEN IF LEVal(index_len) = 0
              THEN Ok([path |-> path, index |-> EmptyMap, num_entries |-> num_entries])
              ELSE ErrIo
    ELSE IF LEVal(index_offset) + LEVal(index_len) > flen THEN ErrIo
    ELSE
      LET parsed == ParseIndex(BSub(file, LEVal(index_offset), LEVal(index_len)),
                               0, EmptyMap)
      IN IF parsed.tag = "Ok"
         THEN Ok([path |-> path, index |-> parsed.val, num_entries |-> num_entries])
         ELSE parsed

\* a get that does not compare the key read from the file with the key asked
\* for
SSTable_get_NoKeyCheck(sst, file, key) ==
  LET flen == BLen(file) IN
  IF key \notin DOMAIN sst.index THEN Ok(None)
  ELSE
    LET off == sst.index[key] IN
    IF IsNegativeOff(off) \/ ~IsSmall(off) THEN ErrIo
    ELSE
      LET o == LEVal(off) IN
      IF o + 4 > flen THEN ErrIo
      ELSE
        LET klb == BSub(file, o, 4) IN
        IF ~IsSmall(klb) THEN ErrIo
        ELSE
          LET key_len == LEVal(klb) IN
          IF o + 4 + key_len > flen THEN ErrIo
          ELSE IF o + 4 + key_len + 4 > flen THEN ErrIo
          ELSE
            LET vlb == BSub(file, o + 4 + key_len, 4) IN
            IF ~IsSmall(vlb) THEN ErrIo
            ELSE
              LET value_len == LEVal(vlb)
                  vpos == o + 4 + key_len + 4
              IN
              IF vpos + value_len + 1 > flen THEN ErrIo
              ELSE IF BSub(file, vpos + value_len, 1) = Repeat(1, 1)
                   THEN Ok(Tombstone)
                   ELSE Ok(Some(BSub(file, vpos, value_len)))

\* SSTable::get through the reader sst on the file with the bytes `file`
SSTable_get(sst, file, key) ==
  LET flen == BLen(file) IN
  IF key \notin DOMAIN sst.index THEN Ok(None)
  ELSE
    LET off == sst.index[key] IN
    IF IsNegativeOff(off) \/ ~IsSmall(off) THEN ErrIo
    ELSE
      LET o == LEVal(off) IN
      IF o + 4 > flen THEN ErrIo
      ELSE
        LET klb == BSub(file, o, 4) IN
        IF ~IsSmall(klb) THEN ErrIo
        ELSE
          LET key_len == LEVal(klb) IN
          IF o + 4 + key_len > flen THEN ErrIo
          ELSE IF BSub(file, o + 4, key_len) # key THEN ErrCorruption
          ELSE IF o + 4 + key_len + 4 > flen THEN ErrIo
          ELSE
            LET vlb == BSub(file, o + 4 + key_len, 4) IN
            IF ~IsSmall(vlb) THEN ErrIo
            ELSE
              LET value_len == LEVal(vlb)
                  vpos == o + 4 + key_len + 4
              IN
              IF vpos + value_len + 1 > flen THEN ErrIo
              ELSE IF BSub(file, vpos + value_len, 1) = Repeat(1, 1)
                   THEN Ok(Tombstone)
                   ELSE Ok(Some(BSub(file, vpos, value_len)))

SSTable_num_entries(sst) == LEVal(sst.num_entries)

(***************************************************************************)
(* LSMTree                                                                 *)
(***************************************************************************)

MEMTABLE_SIZE_THRESHOLD == 4096

\* the decimal digits of n, most significant first
RECURSIVE Digits(_)
Digits(n) == IF n < 10 THEN <<n>> ELSE Digits(n \div 10) \o <<n % 10>>

\* a file stem that does not depend on the sequence number
FileStem_Fixed(n) == <<0, 0, 0, 0, 0, 0, 0, 1>>

\* format!("{:08}", n): the file stem, zero-padded to a width of 8
FileStem(n) ==
  LET d == Digits(n) IN
  IF Len(d) >= 8 THEN d ELSE [i \in 1..(8 - Len(d)) |-> 0] \o d

\* str::parse::<usize> of a file stem
RECURSIVE ParseStem(_)
ParseStem(d) ==
  IF d = <<>> THEN 0 ELSE 10 * ParseStem(SubSeq(d, 1, Len(d) - 1)) + d[Len(d)]

\* the paths sorted the wrong way round
RECURSIVE SortPaths_Descending(_)
SortPaths_Descending(S) ==
  IF S = {} THEN <<>>
  ELSE LET m == CHOOSE p \in S : \A q \in S \ {p} : SeqLess(q, p)
       IN <<m>> \o SortPaths_Descending(S \ {m})

\* sst_paths.sort(): the paths of one directory in lexicographic order
RECURSIVE SortPaths(_)
SortPaths(S) ==
  IF S = {} THEN <<>>
  ELSE LET m == CHOOSE p \in S : \A q \in S \ {p} : SeqLess(p, q)
       IN <<m>> \o SortPaths(S \ {m})

\* the new reader goes to the back
PushBack(q, x) == q \o <<x>>

\* VecDeque::push_front
PushFront(q, x) == <<x>> \o q

\* the loop with push_back in place of push_front: the oldest file in front
RECURSIVE OpenAll_PushBack(_, _, _, _)
OpenAll_PushBack(dir, sst_paths, l0, max_sst_num) ==
  IF sst_paths = <<>>
  THEN Ok([memtable |-> Memtable_new, l0_sstables |-> l0,
           sst_counter |-> max_sst_num + 1])
  ELSE LET path == sst_paths[1]
           sst == SSTable_open(path, dir[path])
       IN IF sst.tag # "Ok" THEN sst
          ELSE LET num == ParseStem(sst.val.path) IN
               OpenAll_PushBack(dir, Tail(sst_paths), PushBack(l0, sst.val),
                                IF num > max_sst_num THEN num ELSE max_sst_num)

\* the loop with the counter set to the largest number seen, not one past it
RECURSIVE OpenAll_NoIncrement(_, _, _, _)
OpenAll_NoIncrement(dir, sst_paths, l0, max_sst_num) ==
  IF sst_paths = <<>>
  THEN Ok([memtable |-> Memtable_new, l0_sstables |-> l0,
           sst_counter |-> max_sst_num])
  ELSE LET path == sst_paths[1]
           sst == SSTable_open(path, dir[path])
       IN IF sst.tag # "Ok" THEN sst
          ELSE LET num == ParseStem(sst.val.path) IN
               OpenAll_NoIncrement(dir, Tail(sst_paths), PushFront(l0, sst.val),
                                   IF num > max_sst_num THEN num ELSE max_sst_num)

\* the loop going on to the next path when a file does not open
RECURSIVE OpenAll_SkipBad(_, _, _, _)
OpenAll_SkipBad(dir, sst_paths, l0, max_sst_num) ==
  IF sst_paths = <<>>
  THEN Ok([memtable |-> Memtable_new, l0_sstables |-> l0,
           sst_counter |-> max_sst_num + 1])
  ELSE LET path == sst_paths[1]
           sst == SSTable_open(path, dir[path])
       IN IF sst.tag # "Ok"
          THEN OpenAll_SkipBad(dir, Tail(sst_paths), l0, max_sst_num)
          ELSE LET num == ParseStem(sst.val.path) IN
               OpenAll_SkipBad(dir, Tail(sst_paths), PushFront(l0, sst.val),
                               IF num > max_sst_num THEN num ELSE max_sst_num)

\* the loop of LSMTree::open over the sorted paths
RECURSIVE OpenAll(_, _, _, _)
OpenAll(dir, sst_paths, l0, max_sst_num) ==
  IF sst_paths = <<>>
  THEN Ok([memtable |-> Memtable_new, l0_sstables |-> l0,
           sst_counter |-> max_sst_num + 1])
  ELSE LET path == sst_paths[1]
           sst == SSTable_open(path, dir[path])
       IN IF sst.tag # "Ok" THEN sst
          ELSE LET num == ParseStem(sst.val.path) IN
               OpenAll(dir, Tail(sst_paths), PushFront(l0, sst.val),
                       IF num > max_sst_num THEN num ELSE max_sst_num)

\* LSMTree::open on a directory holding the files dir (stem -> bytes)
LSMTree_open(dir) == OpenAll(dir, SortPaths(DOMAIN dir), <<>>, 0)

\* a scan that takes a tombstone for "no entry" and goes on to older readers
RECURSIVE ScanL0_SkipsTombstone(_, _, _, _, _)
ScanL0_SkipsTombstone(l0, dir, key, i, fault) ==
  IF i > Len(l0) THEN Ok(None)
  ELSE LET r == IF i = fault /\ key \in DOMAIN l0[i].index
                THEN ErrIo
                ELSE SSTable_get(l0[i], dir[l0[i].path], key)
       IN IF r.tag # "Ok" THEN r
          ELSE IF r.val.tag = "Some" THEN Ok(Some(r.val.v))
          ELSE ScanL0_SkipsTombstone(l0, dir, key, i + 1, fault)

\* a scan that lets the last reader holding the key decide: back to front
RECURSIVE ScanL0_OldestFirst(_, _, _, _, _)
ScanL0_OldestFirst(l0, dir, key, i, fault) ==
  IF i > Len(l0) THEN Ok(None)
  ELSE LET j == Len(l0) + 1 - i
           r == IF j = fault /\ key \in DOMAIN l0[j].index
                THEN ErrIo
                ELSE SSTable_get(l0[j], dir[l0[j].path], key)
       IN IF r.tag # "Ok" THEN r
          ELSE IF r.val.tag = "Some" THEN Ok(Some(r.val.v))
          ELSE IF r.val.tag = "Tombstone" THEN Ok(None)
          ELSE ScanL0_OldestFirst(l0, dir, key, i + 1, fault)

\* a scan that goes on to the older readers when a reader fails
RECURSIVE ScanL0_SkipFailed(_, _, _, _, _)
ScanL0_SkipFailed(l0, dir, key, i, fault) ==
  IF i > Len(l0) THEN Ok(None)
  ELSE LET r == IF i = fault /\ key \in DOMAIN l0[i].index
                THEN ErrIo
                ELSE SSTable_get(l0[i], dir[l0[i].path], key)
       IN IF r.tag # "Ok" THEN ScanL0_SkipFailed(l0, dir, key, i + 1, fault)
          ELSE IF r.val.tag = "Some" THEN Ok(Some(r.val.v))
          ELSE IF r.val.tag = "Tombstone" THEN Ok(None)
          ELSE ScanL0_SkipFailed(l0, dir, key, i + 1, fault)

\* the scan of the readers, front to back; the read of reader number
\* `fault` (0: none) fails with an I/O error when that reader goes to its file
RECURSIVE ScanL0(_, _, _, _, _)
ScanL0(l0, dir, key, i, fault) ==
  IF i > Len(l0) THEN Ok(None)
  ELSE LET r == IF i = fault /\ key \in DOMAIN l0[i].index
                THEN ErrIo
                ELSE SSTable_get(l0[i], dir[l0[i].path], key)
       IN IF r.tag # "Ok" THEN r
          ELSE IF r.val.tag = "Some" THEN Ok(Some(r.val.v))
          ELSE IF r.val.tag = "Tombstone" THEN Ok(None)
          ELSE ScanL0(l0, dir, key, i + 1, fault)

\* a get that asks the readers first and the memtable last
LSMTree_get_ReadersFirst(mem, l0, dir, key, fault) ==
  LET r == ScanL0(l0, dir, key, 1, fault)
      value == Memtable_get(mem, key)
  IN IF r # Ok(None) \/ value.tag = "None" THEN r
     ELSE IF value.tag = "Some" THEN Ok(Some(value.v))
     ELSE Ok(None)

\* LSMTree::get
LSMTree_get(mem, l0, dir, key, fault) ==
  LET value == Memtable_get(mem, key) IN
  IF value.tag = "Some" THEN Ok(Some(value.v))
  ELSE IF value.tag = "Tombstone" THEN Ok(None)
  ELSE ScanL0(l0, dir, key, 1, fault)

\* the builder after the first n entries of the memtable iteration
RECURSIVE AddAll(_, _)
AddAll(entries, n) ==
  IF n = 0 THEN SSTableBuilder_new
  ELSE SSTableBuilder_add(AddAll(entries, n - 1), entries[n][1], entries[n][2])

\* A flush can fail where the code has a `?` on an I/O call or an expect:
\*   "create": File::create fails (SSTableBuilder::new panics on it);
\*   "add":    a write fails within the n-th add;
\*   "finish": a write or the flush fails within finish;
\*   "open":   an I/O call of SSTable::open on the written file fails.
\* What a failed writer leaves in its file is a prefix of what it was given:
\* for "add" (taken at the last add) the records of the adds before it, for
\* "finish" the data region.  A writer that fails after its last byte went
\* out leaves what "open" leaves: the whole file.
NoFault == [at |-> "none", n |-> 0]

FlushFaults(mem) ==
  {NoFault}
    \cup {[at |-> a, n |-> 0] : a \in {"create", "finish", "open"}}
    \cup {[at |-> "add", n |-> Memtable_len(mem)]}

\* LSMTree::flush_memtable; the result carries the fields of the tree, the
\* directory and what the call returns
LSMTree_flush_memtable(mem, l0, counter, dir, fault) ==
  IF Memtable_is_empty(mem)
  THEN [memtable |-> mem, l0_sstables |-> l0, sst_counter |-> counter,
        dir |-> dir, result |-> Ok(<<>>)]
  ELSE
    LET sst_num == counter
        sst_path == FileStem(sst_num)
        entries == Memtable_iter(mem)
        builder == AddAll(entries, Len(entries))
        file == SSTableBuilder_finish(builder)
        kept == [memtable |-> mem, l0_sstables |-> l0, sst_counter |-> counter + 1]
    IN
    IF fault.at = "create"
    THEN kept @@ [dir |-> dir, result |-> Panic]
    ELSE IF fault.at = "add"
    THEN kept @@ [dir |-> MapInsert(dir, sst_path,
                                    AddAll(entries, fault.n - 1).writer),
                  result |-> ErrIo]
    ELSE IF fault.at = "finish"
    THEN kept @@ [dir |-> MapInsert(dir, sst_path, builder.writer),
                  result |-> ErrIo]
    ELSE
      LET dir2 == MapInsert(dir, sst_path, file)
          new_sstable == IF fault.at = "open" THEN ErrIo
                         ELSE SSTable_open(sst_path, dir2[sst_path])
      IN IF new_sstable.tag # "Ok"
         THEN kept @@ [dir |-> dir2, result |-> new_sstable]
         ELSE [memtable |-> Memtable_new,
               l0_sstables |-> PushFront(l0, new_sstable.val),
               sst_counter |-> counter + 1,
               dir |-> dir2, result |-> Ok(<<>>)]

\* a tail that flushes only above the threshold
FlushIfFull_Above(mem, l0, counter, dir, fault) ==
  IF Memtable_size_bytes(mem) > MEMTABLE_SIZE_THRESHOLD
  THEN LSMTree_flush_memtable(mem, l0, counter, dir, fault)
  ELSE [memtable |-> mem, l0_sstables |-> l0, sst_counter |-> counter,
        dir |-> dir, result |-> Ok(<<>>)]

\* a tail that tries a failed flush a second time
FlushIfFull_Retry(mem, l0, counter, dir, fault) ==
  IF Memtable_size_bytes(mem) >= MEMTABLE_SIZE_THRESHOLD
  THEN LET r == LSMTree_flush_memtable(mem, l0, counter, dir, fault) IN
       IF r.result.tag \in {"Ok", "Panic"} THEN r
       ELSE LSMTree_flush_memtable(r.memtable, r.l0_sstables, r.sst_counter,
                                   r.dir, NoFault)
  ELSE [memtable |-> mem, l0_sstables |-> l0, sst_counter |-> counter,
        dir |-> dir, result |-> Ok(<<>>)]

\* the common tail of LSMTree::put and LSMTree::delete
FlushIfFull(mem, l0, counter, dir, fault) ==
  IF Memtable_size_bytes(mem) >= MEMTABLE_SIZE_THRESHOLD
  THEN LSMTree_flush_memtable(mem, l0, counter, dir, fault)
  ELSE [memtable |-> mem, l0_sstables |-> l0, sst_counter |-> counter,
        dir |-> dir, result |-> Ok(<<>>)]

LSMTree_put(mem, l0, counter, dir, key, value, fault) ==
  FlushIfFull(Memtable_put(mem, key, value), l0, counter, dir, fault)

LSMTree_delete(mem, l0, counter, dir, key, fault) ==
  FlushIfFull(Memtable_delete(mem, key), l0, counter, dir, fault)

(***************************************************************************)
(* The state machine: one Tree on one directory                            *)
(***************************************************************************)

\* the largest sequence number a flush may take
MaxSst == 2

K1 == FromSeq(<<2>>)

K2 == FromSeq(<<1, 3>>)

Keys == {K1, K2}

\* Vec::new()
Empty == <<>>

\* two of them cross the threshold together, neither does alone
Half == Repeat(7, 2047)

\* with the one byte of K1 exactly the threshold
Big == Repeat(0, 4095)

Vals == {Half, Big}

VARIABLES
  alive,        \* a Tree instance exists
  memtable,     \* LSMTree.memtable
  l0_sstables,  \* LSMTree.l0_sstables, front first
  sst_counter,  \* LSMTree.sst_counter
  disk,         \* the .sst files of data_dir: file stem -> bytes
  builder,      \* a SSTableBuilder in use outside a Tree
  last,         \* the last call, the failure it met and what it returned
  model,        \* a plain key -> value map driven by the same puts and deletes
                \* (kept while clean)
  clean,        \* no put or delete of this Tree instance has failed
  durable,      \* what get returned for each key right after the last flush
                \* (kept while no flush attempt has failed)
  flushes,      \* the flushes that succeeded on this directory
  failed,       \* the flush attempts that failed and left a file in the directory
  lost,         \* the Tree that went away held an unflushed delete of a key
                \* that the last flush left with a value (kept until the next
                \* put or delete)
  writers       \* the callers that run put or delete on the Tree with their
                \* steps interleaved: where each one is in its call

vars == <<alive, memtable, l0_sstables, sst_counter, disk, builder, last, model,
          clean, durable, flushes, failed, lost, writers>>

EmptyDir == [p \in {} |-> <<>>]

\* added: the entries the builder was given, in the order of the add calls
NoBuilder == [live |-> FALSE, b |-> SSTableBuilder_new, added |-> <<>>]

\* what get returns for every key, no read failing
\* two callers, each writing its own key
Writers == {1, 2}

\* a caller between two calls; key, entry and raced are about its last call
Idle == [pc |-> "idle", key |-> <<>>, entry |-> None, sst_num |-> 0,
         raced |-> FALSE]

NoWriters == [w \in Writers |-> Idle]

View(mem, l0, dir) == [k \in Keys |-> LSMTree_get(mem, l0, dir, k, 0)]

NoModel == [k \in Keys |-> None]

NoView == [k \in Keys |-> Ok(None)]

Call(op, key, value, fault, result) ==
  [op |-> op, key |-> key, value |-> value, fault |-> fault, result |-> result]

Init ==
  LET t == LSMTree_open(EmptyDir).val IN
  /\ alive = TRUE
  /\ memtable = t.memtable
  /\ l0_sstables = t.l0_sstables
  /\ sst_counter = t.sst_counter
  /\ disk = EmptyDir
  /\ builder = NoBuilder
  /\ last = Call("open", <<>>, <<>>, NoFault, Ok(<<>>))
  /\ model = NoModel
  /\ clean = TRUE
  /\ durable = NoView
  /\ flushes = 0
  /\ failed = 0
  /\ lost = FALSE
  /\ writers = NoWriters

\* the Tree is gone (dropped, or its thread panicked) with mem in its memtable
Gone(mem) ==
  /\ alive' = FALSE
  /\ memtable' = Memtable_new
  /\ l0_sstables' = <<>>
  /\ sst_counter' = 0
  /\ model' = NoModel
  /\ clean' = FALSE
  /\ lost' = \E k \in DOMAIN mem.data :
                 mem.data[k] = Tombstone /\ durable[k].val.tag = "Some"

\* the state after a put or delete that met `fault` and came out as r
Written(r, op, key, value, fault, entry) ==
  LET flushed == Len(r.l0_sstables) > Len(l0_sstables) IN
  /\ IF r.result.tag = "Panic"
     THEN Gone(r.memtable)
     ELSE /\ alive' = TRUE
          /\ memtable' = r.memtable
          /\ l0_sstables' = r.l0_sstables
          /\ sst_counter' = r.sst_counter
          /\ clean' = (clean /\ r.result.tag = "Ok")
          /\ model' = IF clean' THEN [model EXCEPT ![key] = entry] ELSE NoModel
          /\ lost' = FALSE
  /\ disk' = r.dir
  /\ last' = Call(op, key, value, fault, r.result)
  /\ flushes' = IF flushed THEN flushes + 1 ELSE flushes
  /\ failed' = IF DOMAIN r.dir # DOMAIN disk /\ ~flushed THEN failed + 1 ELSE failed
  /\ durable' = IF failed' > 0 THEN NoView
                ELSE IF flushed THEN View(r.memtable, r.l0_sstables, r.dir)
                ELSE durable
  /\ UNCHANGED <<builder, writers>>

\* the first sequence number that does not fit the eight digits of "{:08}"
Rollover == 100000000

\* the sequence numbers are counted from 0, or from the last eight-digit
\* number once the counter is past it
SstBase == IF sst_counter >= Rollover THEN Rollover - 1 ELSE 0

\* a flush is attempted only while sequence numbers are left
Allowed(mem, fault) ==
  IF Memtable_size_bytes(mem) >= MEMTABLE_SIZE_THRESHOLD
  THEN sst_counter - SstBase <= MaxSst
  ELSE fault = NoFault

Put(key, value) ==
  /\ alive
  /\ \E fault \in FlushFaults(Memtable_put(memtable, key, value)) :
       /\ Allowed(Memtable_put(memtable, key, value), fault)
       /\ \E r \in {LSMTree_put(memtable, l0_sstables, sst_counter, disk,
                                 key, value, fault)} :
            Written(r, "put", key, value, fault, Some(value))

Delete(key) ==
  /\ alive
  /\ \E fault \in FlushFaults(Memtable_delete(memtable, key)) :
       /\ Allowed(Memtable_delete(memtable, key), fault)
       /\ \E r \in {LSMTree_delete(memtable, l0_sstables, sst_counter, disk,
                                    key, fault)} :
            Written(r, "delete", key, <<>>, fault, None)

\* a get; the read of reader number `fault` (0: none) fails
Get(key) ==
  /\ alive
  /\ \E fault \in 0..Len(l0_sstables) :
       last' = Call("get", key, <<>>, [at |-> "read", n |-> fault],
                    LSMTree_get(memtable, l0_sstables, disk, key, fault))
  /\ UNCHANGED <<alive, memtable, l0_sstables, sst_counter, disk, builder, model,
                 clean, durable, flushes, failed, lost, writers>>

\* the Tree goes away without a flush
Drop ==
  /\ alive
  /\ Gone(memtable)
  /\ last' = Call("drop", <<>>, <<>>, NoFault, Ok(<<>>))
  /\ UNCHANGED <<disk, builder, durable, flushes, failed, writers>>

\* a new Tree is opened on the directory
Open ==
  /\ ~alive
  /\ ~builder.live
  /\ \E r \in {LSMTree_open(disk)} :
       /\ IF r.tag = "Ok"
          THEN /\ alive' = TRUE
               /\ memtable' = r.val.memtable
               /\ l0_sstables' = r.val.l0_sstables
               /\ sst_counter' = r.val.sst_counter
               /\ model' = [k \in Keys |->
                              LSMTree_get(r.val.memtable, r.val.l0_sstables,
                                          disk, k, 0).val]
               /\ clean' = TRUE
          ELSE UNCHANGED <<alive, memtable, l0_sstables, sst_counter, model, clean>>
       /\ last' = Call("open", <<>>, <<>>, NoFault,
                       IF r.tag = "Ok" THEN Ok(<<>>) ELSE r)
  /\ UNCHANGED <<disk, builder, durable, flushes, failed, lost, writers>>

Next ==
  \/ \E key \in Keys, value \in Vals : Put(key, value)
  \/ \E key \in Keys : Delete(key)
  \/ Drop
  \/ Open

Spec == Init /\ [][Next]_vars

\* The same Tree on a directory that holds the file with the last eight-digit
\* sequence number, written by a flush of K1 -> Big: the next flushes take
\* the numbers 100000000 and up
RollFile ==
  SSTableBuilder_finish(AddAll(Memtable_iter(Memtable_put(Memtable_new, K1, Big)), 1))

RollDir == [p \in {FileStem(Rollover - 1)} |-> RollFile]

InitRoll ==
  LET t == LSMTree_open(RollDir).val IN
  /\ alive = TRUE
  /\ memtable = t.memtable
  /\ l0_sstables = t.l0_sstables
  /\ sst_counter = t.sst_counter
  /\ disk = RollDir
  /\ builder = NoBuilder
  /\ last = Call("open", <<>>, <<>>, NoFault, Ok(<<>>))
  /\ model = [k \in Keys |->
                LSMTree_get(t.memtable, t.l0_sstables, RollDir, k, 0).val]
  /\ clean = TRUE
  /\ durable = View(t.memtable, t.l0_sstables, RollDir)
  /\ flushes = 1
  /\ failed = 0
  /\ lost = FALSE
  /\ writers = NoWriters

SpecRoll == InitRoll /\ [][Next]_vars

\* The Tree whose every put carries the value Big and so ends in a flush
NextFlush ==
  \/ \E key \in Keys : Put(key, Big)
  \/ \E key \in Keys : Delete(key)
  \/ Drop
  \/ Open

SpecFlush == Init /\ [][NextFlush]_vars

\* The Tree with puts of the value of length 0, and of Big to get them flushed
NextEmpty ==
  \/ \E key \in Keys, value \in {Empty, Big} : Put(key, value)
  \/ \E key \in Keys : Delete(key)
  \/ Drop
  \/ Open

SpecEmpty == Init /\ [][NextEmpty]_vars

\* The Tree with its reads: every put carries the value Big and so ends in a
\* flush, a get may meet a failing read
NextRead ==
  \/ \E key \in Keys : Put(key, Big)
  \/ \E key \in Keys : Delete(key)
  \/ \E key \in Keys : Get(key)
  \/ Drop
  \/ Open

SpecRead == Init /\ [][NextRead]_vars

(***************************************************************************)
(* The state machine of one SSTable file: written through a builder,       *)
(* edited by hand, opened and read                                         *)
(***************************************************************************)

\* the number of entries a builder is given
MaxEntries == 2

\* the file under test
SstPath == FileStem(1)

Entries == {Tombstone, Some(Empty), Some(Half)}

\* what a hand edit puts in place of the magic number: zeros (as
\* test_corrupted_magic_number does) or the magic number with its last byte
\* changed
BadMagics == {Repeat(0, 8), FromSeq(<<49, 76, 69, 66, 65, 84, 83, 84>>)}

InitSst ==
  /\ alive = FALSE
  /\ memtable = Memtable_new
  /\ l0_sstables = <<>>
  /\ sst_counter = 0
  /\ disk = [p \in {SstPath} |-> <<>>]
  /\ builder = [live |-> TRUE, b |-> SSTableBuilder_new, added |-> <<>>]
  /\ last = Call("new", <<>>, <<>>, NoFault, Ok(<<>>))
  /\ model = NoModel
  /\ clean = FALSE
  /\ durable = NoView
  /\ flushes = 0
  /\ failed = 0
  /\ lost = FALSE
  /\ writers = NoWriters

SstFrame == UNCHANGED <<alive, memtable, sst_counter, model, clean, durable,
                        flushes, failed, lost, writers>>

SstAdd(key, value) ==
  /\ builder.live
  /\ builder.b.num_entries < MaxEntries
  /\ builder' = [builder EXCEPT !.b = SSTableBuilder_add(builder.b, key, value),
                                 !.added = Append(builder.added, <<key, value>>)]
  /\ last' = Call("add", key, value, NoFault, Ok(<<>>))
  /\ UNCHANGED <<disk, l0_sstables>>
  /\ SstFrame

SstFinish ==
  /\ builder.live
  /\ disk' = [disk EXCEPT ![SstPath] = SSTableBuilder_finish(builder.b)]
  /\ builder' = [builder EXCEPT !.live = FALSE]
  /\ last' = Call("finish", <<>>, <<>>, NoFault, Ok(<<>>))
  /\ UNCHANGED l0_sstables
  /\ SstFrame

\* the file is as finish wrote it: no edit since
Pristine == ~builder.live /\ disk[SstPath] = SSTableBuilder_finish(builder.b)

\* seek(SeekFrom::End(-16)) and write_all of eight bytes
SstEditMagic(bytes) ==
  /\ Pristine
  /\ LET f == disk[SstPath] IN
     /\ BLen(f) >= 16
     /\ disk' = [disk EXCEPT ![SstPath] =
                   Cat(<<BTake(f, BLen(f) - 16), bytes, BDrop(f, BLen(f) - 8)>>)]
  /\ last' = Call("edit", <<>>, bytes, NoFault, Ok(<<>>))
  /\ UNCHANGED <<builder, l0_sstables>>
  /\ SstFrame

\* the lengths a written file is cut to: inside the footer, one byte short,
\* eight bytes short
CutLengths(f) == {n \in {16, 31, BLen(f) - 8, BLen(f) - 1} : n >= 0}

\* File::set_len on a written file: the file is cut to n bytes
SstTruncate(n) ==
  /\ Pristine
  /\ disk' = [disk EXCEPT ![SstPath] = BTake(disk[SstPath], n)]
  /\ last' = Call("truncate", <<>>, U32LE(n), NoFault, Ok(<<>>))
  /\ UNCHANGED <<builder, l0_sstables>>
  /\ SstFrame

\* the values put in place of the footer's index_len: three bytes (less than
\* any index entry), one less and one more than the length written
BadIndexLens(b) ==
  {n \in {3, IndexLen(b.index) - 1, IndexLen(b.index) + 1} :
     n >= 0 /\ n # IndexLen(b.index)}

\* seek(SeekFrom::End(-24)) and write_all of the four bytes of n: the footer
\* of a written file gets another index_len
SstEditIndexLen(n) ==
  /\ Pristine
  /\ LET f == disk[SstPath] IN
     disk' = [disk EXCEPT ![SstPath] =
                Cat(<<BTake(f, BLen(f) - 24), U32LE(n), BDrop(f, BLen(f) - 20)>>)]
  /\ last' = Call("edit_index_len", <<>>, U32LE(n), NoFault, Ok(<<>>))
  /\ UNCHANGED <<builder, l0_sstables>>
  /\ SstFrame

\* the position in the written file of the offset field of index entry i
OffsetFieldPos(b, i) ==
  b.current_offset + IndexLen(SubSeq(b.index, 1, i - 1)) + 4 + BLen(b.index[i][1])

\* seek to the offset field of index entry i and write_all of the offset of
\* record j: the index of a written file points key i at another record
SstEditOffset(i, j) ==
  /\ Pristine
  /\ i # j
  /\ LET f == disk[SstPath]
         pos == OffsetFieldPos(builder.b, i)
     IN disk' = [disk EXCEPT ![SstPath] =
                   Cat(<<BTake(f, pos), U64LE(builder.b.index[j][2]),
                         BDrop(f, pos + 8)>>)]
  /\ last' = Call("edit_offset", builder.b.index[i][1], <<>>, NoFault, Ok(<<>>))
  /\ UNCHANGED <<builder, l0_sstables>>
  /\ SstFrame

SstOpen ==
  /\ \E r \in {SSTable_open(SstPath, disk[SstPath])} :
       /\ l0_sstables' = IF r.tag = "Ok" THEN <<r.val>> ELSE <<>>
       /\ last' = Call("sst_open", <<>>, <<>>, NoFault,
                       IF r.tag = "Ok" THEN Ok(<<>>) ELSE r)
  /\ UNCHANGED <<builder, disk>>
  /\ SstFrame

SstGet(key) ==
  /\ Len(l0_sstables) = 1
  /\ last' = Call("sst_get", key, <<>>, NoFault,
                  SSTable_get(l0_sstables[1], disk[SstPath], key))
  /\ UNCHANGED <<builder, disk, l0_sstables>>
  /\ SstFrame

NextSst ==
  \/ \E key \in Keys, value \in Entries : SstAdd(key, value)
  \/ SstFinish
  \/ \E bytes \in BadMagics : SstEditMagic(bytes)
  \/ \E n \in CutLengths(disk[SstPath]) : SstTruncate(n)
  \/ \E n \in BadIndexLens(builder.b) : SstEditIndexLen(n)
  \/ \E i, j \in 1..Len(builder.b.index) : SstEditOffset(i, j)
  \/ SstOpen
  \/ \E key \in Keys : SstGet(key)

SpecSst == InitSst /\ [][NextSst]_vars

(***************************************************************************)
(* The state machine of one Memtable on its own                            *)
(***************************************************************************)

\* K1 is a proper prefix of K3, and the empty key is a key: <<>> < K2 < K1 < K3
K3 == FromSeq(<<2, 0>>)

MemKeys == Keys \cup {K3, Empty}

Short == FromSeq(<<9, 9, 8>>)

MemVals == {Empty, Short, Half}

\* a call on the memtable; found is the entry it found for its key
MemCall(op, key, value, found) ==
  [op |-> op, key |-> key, value |-> value, fault |-> NoFault,
   result |-> Ok(<<>>), found |-> found]

\* model holds for every key the last operation on it: None (never put or
\* deleted), Tombstone (a delete) or Some(v) (a put of v)
InitMem ==
  /\ alive = FALSE
  /\ memtable = Memtable_new
  /\ l0_sstables = <<>>
  /\ sst_counter = 0
  /\ disk = EmptyDir
  /\ builder = NoBuilder
  /\ last = MemCall("new", <<>>, <<>>, None)
  /\ model = [k \in MemKeys |-> None]
  /\ clean = FALSE
  /\ durable = NoView
  /\ flushes = 0
  /\ failed = 0
  /\ lost = FALSE
  /\ writers = NoWriters

MemFrame == UNCHANGED <<alive, l0_sstables, sst_counter, disk, builder, clean,
                        durable, flushes, failed, lost, writers>>

MemPut(key, value) ==
  /\ memtable' = Memtable_put(memtable, key, value)
  /\ model' = [model EXCEPT ![key] = Some(value)]
  /\ last' = MemCall("put", key, value, Memtable_get(memtable, key))
  /\ MemFrame

MemDelete(key) ==
  /\ memtable' = Memtable_delete(memtable, key)
  /\ model' = [model EXCEPT ![key] = Tombstone]
  /\ last' = MemCall("delete", key, <<>>, Memtable_get(memtable, key))
  /\ MemFrame

NextMem ==
  \/ \E key \in MemKeys, value \in MemVals : MemPut(key, value)
  \/ \E key \in MemKeys : MemDelete(key)

SpecMem == InitMem /\ [][NextMem]_vars

(***************************************************************************)
(* The state machine of two callers on one Tree, with no lock: the         *)
(* statements of put, delete and flush_memtable are the steps, and the     *)
(* steps of the two calls interleave                                       *)
(***************************************************************************)

\* the key of a caller
WKey(w) == IF w = 1 THEN K1 ELSE K2

\* what a caller puts (Some) or deletes (Tombstone)
WEntries == {Some(Big), Tombstone}

WFrame == UNCHANGED <<alive, builder, last, model, clean, durable, flushes,
                      failed, lost>>

\* the caller is within a flush that has iterated the memtable and has not
\* yet replaced it
HasIterated(w) == writers[w].pc \in {"open", "clear"}

\* put / delete return Ok
Return(w) == [writers EXCEPT ![w].pc = "idle"]

\* self.memtable.put(key, value) / self.memtable.delete(key)
WApply(w, entry) ==
  /\ writers[w].pc = "idle"
  /\ memtable' = IF entry.tag = "Some"
                 THEN Memtable_put(memtable, WKey(w), entry.v)
                 ELSE Memtable_delete(memtable, WKey(w))
  /\ writers' = [writers EXCEPT ![w] =
                   [pc |-> "check", key |-> WKey(w), entry |-> entry,
                    sst_num |-> 0,
                    raced |-> \E o \in Writers \ {w} : HasIterated(o)]]
  /\ UNCHANGED <<l0_sstables, sst_counter, disk>>
  /\ WFrame

\* if self.memtable.size_bytes() >= MEMTABLE_SIZE_THRESHOLD
WCheck(w) ==
  /\ writers[w].pc = "check"
  /\ writers' = IF Memtable_size_bytes(memtable) >= MEMTABLE_SIZE_THRESHOLD
                THEN [writers EXCEPT ![w].pc = "flush"]
                ELSE Return(w)
  /\ UNCHANGED <<memtable, l0_sstables, sst_counter, disk>>
  /\ WFrame

\* flush_memtable: if self.memtable.is_empty() { return Ok(()) }
WIsEmpty(w) ==
  /\ writers[w].pc = "flush"
  /\ writers' = IF Memtable_is_empty(memtable)
                THEN Return(w)
                ELSE [writers EXCEPT ![w].pc = "fetch_add"]
  /\ UNCHANGED <<memtable, l0_sstables, sst_counter, disk>>
  /\ WFrame

\* a plain read of the counter in place of fetch_add
WFetchAdd_LoadOnly(w) ==
  /\ writers[w].pc = "fetch_add"
  /\ sst_counter <= MaxSst
  /\ writers' = [writers EXCEPT ![w].pc = "build", ![w].sst_num = sst_counter]
  /\ UNCHANGED <<memtable, l0_sstables, sst_counter, disk>>
  /\ WFrame

\* let sst_num = self.sst_counter.fetch_add(1, Ordering::SeqCst)
WFetchAdd(w) ==
  /\ writers[w].pc = "fetch_add"
  /\ sst_counter <= MaxSst
  /\ sst_counter' = sst_counter + 1
  /\ writers' = [writers EXCEPT ![w].pc = "build", ![w].sst_num = sst_counter]
  /\ UNCHANGED <<memtable, l0_sstables, disk>>
  /\ WFrame

\* SSTableBuilder::new, the loop over self.memtable.iter(), builder.finish()
WBuild(w) ==
  /\ writers[w].pc = "build"
  /\ LET entries == Memtable_iter(memtable) IN
       disk' = MapInsert(disk, FileStem(writers[w].sst_num),
                         SSTableBuilder_finish(AddAll(entries, Len(entries))))
  /\ writers' = [writers EXCEPT ![w].pc = "open"]
  /\ UNCHANGED <<memtable, l0_sstables, sst_counter>>
  /\ WFrame

\* SSTable::open(sst_path)?, self.l0_sstables.push_front(new_sstable)
WOpen(w) ==
  /\ writers[w].pc = "open"
  /\ LET sst_path == FileStem(writers[w].sst_num)
         new_sstable == SSTable_open(sst_path, disk[sst_path])
     IN IF new_sstable.tag = "Ok"
        THEN /\ l0_sstables' = PushFront(l0_sstables, new_sstable.val)
             /\ writers' = [writers EXCEPT ![w].pc = "clear"]
        ELSE /\ l0_sstables' = l0_sstables
             /\ writers' = [writers EXCEPT ![w] = Idle]
  /\ UNCHANGED <<memtable, sst_counter, disk>>
  /\ WFrame

\* self.memtable = Memtable::new(), Ok(())
WClear(w) ==
  /\ writers[w].pc = "clear"
  /\ memtable' = Memtable_new
  /\ writers' = Return(w)
  /\ UNCHANGED <<l0_sstables, sst_counter, disk>>
  /\ WFrame

NextWriters ==
  \/ \E w \in Writers, entry \in WEntries : WApply(w, entry)
  \/ \E w \in Writers : WCheck(w)
  \/ \E w \in Writers : WIsEmpty(w)
  \/ \E w \in Writers : WFetchAdd(w)
  \/ \E w \in Writers : WBuild(w)
  \/ \E w \in Writers : WOpen(w)
  \/ \E w \in Writers : WClear(w)

SpecWriters == Init /\ [][NextWriters]_vars

(***************************************************************************)
(* Properties                                                              *)
(***************************************************************************)

\* what get returns for k in the current state, no read failing
GetNow(k) == LSMTree_get(memtable, l0_sstables, disk, k, 0)

\* the entry reader number i holds for k
EntryIn(i, k) ==
  SSTable_get(l0_sstables[i], disk[l0_sstables[i].path], k).val

\* the readers that hold an entry for k
Holders(k) == {i \in 1..Len(l0_sstables) : k \in DOMAIN l0_sstables[i].index}

\* the most recently flushed reader of S: the one with the largest
\* sequence number
Newest(S) ==
  CHOOSE i \in S : \A j \in S :
    ParseStem(l0_sstables[j].path) <= ParseStem(l0_sstables[i].path)

\* the memtable of the state before a put or delete, after the call's
\* memtable operation and before its flush
AfterMemtableOp ==
  IF last'.op = "put"
  THEN Memtable_put(memtable, last'.key, last'.value)
  ELSE Memtable_delete(memtable, last'.key)

\* a put or delete step creates exactly one file and touches no other
OneNewFile ==
  /\ Cardinality((DOMAIN disk') \ (DOMAIN disk)) = 1
  /\ \A p \in DOMAIN disk : p \in DOMAIN disk' /\ disk'[p] = disk[p]

\* C1: while every put and delete of a Tree has returned Ok, get returns for
\* every key what a plain key -> value map driven by the same calls holds:
\* the value of the most recent put, "not found" after a delete or when the
\* key was never written.
C1_GetEqualsPlainMap ==
  (alive /\ clean) => \A k \in Keys : GetNow(k) = Ok(model[k])

C1_Witness ==
  /\ alive /\ clean /\ Len(l0_sstables) = 2
  /\ \E k \in Keys :
       /\ model[k].tag = "Some"
       /\ k \notin DOMAIN memtable.data
  /\ \E k \in Keys :
       /\ model[k] = None
       /\ k \notin DOMAIN memtable.data
       /\ \E i \in Holders(k) : EntryIn(i, k).tag = "Some"

\* C2: after delete(k), get(k) returns "not found", whether or not the value
\* was flushed before; a tombstone in the memtable decides the get with no
\* reader consulted: the result is the same whichever reader read would fail.
C2_TombstoneMasks ==
  alive =>
    /\ last.op = "delete" => GetNow(last.key) = Ok(None)
    /\ \A k \in Keys :
         Memtable_get(memtable, k) = Tombstone =>
           \A f \in 0..Len(l0_sstables) :
             LSMTree_get(memtable, l0_sstables, disk, k, f) = Ok(None)

C2_Witness ==
  /\ alive /\ last.op = "delete"
  /\ Memtable_get(memtable, last.key) = Tombstone
  /\ \E i \in Holders(last.key) : EntryIn(i, last.key).tag = "Some"

\* C3: a value the memtable holds for a key is what get returns, whatever
\* the files on disk hold for that key and with no reader consulted.
C3_MemtableValueWins ==
  alive =>
    \A k \in Keys :
      Memtable_get(memtable, k).tag = "Some" =>
        \A f \in 0..Len(l0_sstables) :
          LSMTree_get(memtable, l0_sstables, disk, k, f)
            = Ok(Some(Memtable_get(memtable, k).v))

C3_Witness ==
  /\ alive /\ last.op = "put"
  /\ Memtable_get(memtable, last.key) = Some(last.value)
  /\ \E i \in Holders(last.key) :
       /\ EntryIn(i, last.key).tag = "Some"
       /\ EntryIn(i, last.key).v # last.value

\* C4: when the memtable has no entry for a key, the most recently flushed
\* file among those holding the key decides the get alone: its tombstone
\* gives "not found", its value is returned.
C4_NewestFileDecides ==
  alive =>
    \A k \in Keys :
      (Memtable_get(memtable, k) = None /\ Holders(k) # {}) =>
        LET e == EntryIn(Newest(Holders(k)), k) IN
        GetNow(k) = IF e.tag = "Some" THEN Ok(Some(e.v)) ELSE Ok(None)

C4_Witness ==
  /\ alive /\ Memtable_is_empty(memtable) /\ Len(l0_sstables) = 2
  /\ \E k \in Keys :
       /\ EntryIn(Newest({1, 2}), k) = Tombstone
       /\ \E i \in Holders(k) : EntryIn(i, k).tag = "Some"
  /\ \E k \in Keys :
       /\ EntryIn(Newest({1, 2}), k).tag = "Some"
       /\ \E i \in Holders(k) :
            EntryIn(i, k).tag = "Some" /\ EntryIn(i, k) # EntryIn(Newest({1, 2}), k)

\* C5: a put or delete that returns Ok and leaves the size accumulator below
\* 4096 creates no file and leaves the readers as they were; one that returns
\* Ok with the accumulator at or above 4096 creates exactly one file, puts
\* exactly one reader before the others and returns with an empty memtable.
C5_ThresholdTrigger ==
  [][ (last'.op \in {"put", "delete"} /\ last'.result.tag = "Ok") =>
        IF Memtable_size_bytes(AfterMemtableOp) < MEMTABLE_SIZE_THRESHOLD
        THEN disk' = disk /\ l0_sstables' = l0_sstables
        ELSE /\ OneNewFile
             /\ Len(l0_sstables') = Len(l0_sstables) + 1
             /\ Tail(l0_sstables') = l0_sstables
             /\ Memtable_is_empty(memtable')
             /\ Memtable_size_bytes(memtable') = 0 ]_vars

C5_Witness ==
  /\ alive /\ last.op = "put" /\ last.value = Half /\ last.result.tag = "Ok"
  /\ Memtable_is_empty(memtable)
  /\ Len(l0_sstables) = 2

\* C6: a Tree opened on a directory in which N flushes succeeded and none
\* failed has exactly N readers and an empty memtable, and get returns for
\* every key of the flushed files what it returned right after the last flush.
C6_RecoversFlushedFiles ==
  (alive /\ last.op = "open" /\ failed = 0) =>
    /\ Len(l0_sstables) = flushes
    /\ Memtable_is_empty(memtable)
    /\ \A k \in Keys : Holders(k) # {} => GetNow(k) = durable[k]

C6_Witness ==
  /\ alive /\ last.op = "open" /\ failed = 0 /\ flushes = 2
  /\ Len(l0_sstables) = 2
  /\ \E k \in Keys : Cardinality(Holders(k)) = 2 /\ durable[k].val.tag = "Some"

\* C7: a Tree opened after the Tree before it went away (no flush attempt
\* having failed) has lost every put and delete made since the last flush: get
\* returns for every key what it returned right after that flush, so a key
\* deleted but not flushed is readable again.
C7_UnflushedWritesLost ==
  (alive /\ last.op = "open" /\ failed = 0) =>
    \A k \in Keys : GetNow(k) = durable[k]

C7_Witness ==
  /\ alive /\ last.op = "open" /\ failed = 0 /\ lost
  /\ \E k \in Keys : GetNow(k).val.tag = "Some"

\* C8: a put or delete that returns an error leaves the memtable and the
\* reader sequence as they were before the call.
C8_FailedWriteChangesNothing ==
  [][ (last'.op \in {"put", "delete"}
        /\ last'.result.tag \in {"Io", "Corruption"}) =>
        (memtable' = memtable /\ l0_sstables' = l0_sstables) ]_vars

\* C9: when the flush of a put or delete fails in add, in finish or in the
\* reopening of the written file, the call returns the error, the memtable
\* keeps every entry (that of the call included), no reader is added, and one
\* sequence number and one file were used: there was no second attempt.
C9_FailedFlushKeepsMemtable ==
  [][ (last'.op \in {"put", "delete"}
        /\ last'.fault.at \in {"add", "finish", "open"}) =>
        /\ last'.result = ErrIo
        /\ alive'
        /\ memtable' = AfterMemtableOp
        /\ ~Memtable_is_empty(memtable')
        /\ l0_sstables' = l0_sstables
        /\ sst_counter' = sst_counter + 1
        /\ OneNewFile ]_vars

C9_Witness ==
  /\ alive /\ last.op = "delete" /\ last.fault.at = "finish"
  /\ last.result = ErrIo
  /\ Memtable_size_bytes(memtable) >= MEMTABLE_SIZE_THRESHOLD
  /\ failed = 2

\* C10: SSTable::open on a file whose footer holds another magic number than
\* MAGIC_NUMBER returns a Corruption error: no I/O error, no reader, no panic.
C10_BadMagicIsCorruption ==
  LET f == disk[SstPath] IN
  (last.op = "sst_open" /\ BLen(f) >= FOOTER_SIZE
     /\ BSub(f, BLen(f) - 16, 8) # MAGIC_NUMBER) =>
    (last.result = ErrCorruption /\ l0_sstables = <<>>)

C10_Witness ==
  /\ last.op = "sst_open" /\ last.result = ErrCorruption
  /\ BSub(disk[SstPath], BLen(disk[SstPath]) - 16, 8) \in BadMagics
  /\ BLen(disk[SstPath]) > FOOTER_SIZE

\* C11: SSTable::open returns a value for every file, an error value for a
\* malformed one: it does not panic, a file cut short gives an error, and an
\* index_len in the footer that the index entries run past gives a Corruption
\* error.
C11_MalformedFileIsError ==
  last.op = "sst_open" =>
    /\ last.result.tag \in {"Ok", "Io", "Corruption"}
    /\ BLen(disk[SstPath]) < BLen(SSTableBuilder_finish(builder.b)) =>
         last.result.tag \in {"Io", "Corruption"}

\* C12: a put or delete whose flush cannot create its file returns an I/O
\* error to the caller, and the Tree is still there.
C12_CreateFailureIsError ==
  (last.op \in {"put", "delete"} /\ last.fault.at = "create") =>
    (last.result = ErrIo /\ alive)

\* the sum of the entry sizes of the keys S of the map data: key length plus
\* payload length for a stored value, key length alone for a tombstone
RECURSIVE SumSizes(_, _)
SumSizes(data, S) ==
  IF S = {} THEN 0
  ELSE LET k == CHOOSE x \in S : TRUE IN
       BLen(k) + (IF data[k].tag = "Some" THEN BLen(data[k].v) ELSE 0)
         + SumSizes(data, S \ {k})

\* C13: in every Memtable state size_bytes is the sum of the entry sizes, and
\* no stored payload is longer than the accumulator, so the subtraction a put
\* or delete makes for a replaced payload never goes below zero.
C13_SizeIsSumOfEntries ==
  /\ Memtable_size_bytes(memtable) = SumSizes(memtable.data, DOMAIN memtable.data)
  /\ \A k \in DOMAIN memtable.data :
       memtable.data[k].tag = "Some" =>
         BLen(memtable.data[k].v) <= Memtable_size_bytes(memtable)

C13_Witness ==
  /\ last.op = "put" /\ last.found = Some(Half) /\ last.value = Short
  /\ Memtable_len(memtable) = 4
  /\ \E k \in MemKeys : Memtable_get(memtable, k) = Tombstone
  /\ \E k \in MemKeys : Memtable_get(memtable, k) = Some(Empty)

\* C14: a delete of a key whose entry is a tombstone changes nothing:
\* size_bytes, len and the get of every key are what they were.
C14_SecondDeleteChangesNothing ==
  [][ (last'.op = "delete" /\ Memtable_get(memtable, last'.key) = Tombstone) =>
        /\ Memtable_size_bytes(memtable') = Memtable_size_bytes(memtable)
        /\ Memtable_len(memtable') = Memtable_len(memtable)
        /\ \A k \in MemKeys :
             Memtable_get(memtable', k) = Memtable_get(memtable, k) ]_vars

C14_Witness ==
  /\ last.op = "delete" /\ last.found = Tombstone
  /\ Memtable_get(memtable, last.key) = Tombstone
  /\ Memtable_len(memtable) >= 2

\* byte-lexicographic order, read off the bytes: a and b agree before some
\* position where a has ended or has the smaller byte
LexLess(a, b) ==
  LET x == Expand(a)
      y == Expand(b)
  IN \E i \in 1..Len(y) :
       /\ i <= Len(x) + 1
       /\ \A j \in 1..(i - 1) : x[j] = y[j]
       /\ (i = Len(x) + 1 \/ x[i] < y[i])

\* C15: the iteration of a Memtable yields every entry once, in strictly
\* ascending byte-lexicographic key order.
C15_IterationAscending ==
  LET it == Memtable_iter(memtable) IN
  /\ Len(it) = Cardinality(DOMAIN memtable.data)
  /\ \A k \in DOMAIN memtable.data :
       \E i \in 1..Len(it) : it[i] = <<k, memtable.data[k]>>
  /\ \A i, j \in 1..Len(it) : i < j => LexLess(it[i][1], it[j][1])

C15_Witness ==
  /\ last.op = "delete" /\ last.found = None /\ last.key = K2
  /\ Memtable_len(memtable) = 4
  /\ Memtable_iter(memtable)[2] = <<K2, Tombstone>>

\* C16: get returns what the last operation on the key left: the value of a
\* put, a Tombstone after a delete (also of a key never put), None for a key
\* never put or deleted; len counts every key put or deleted, tombstones
\* included.
C16_GetReturnsLastOperation ==
  /\ \A k \in MemKeys : Memtable_get(memtable, k) = model[k]
  /\ Memtable_len(memtable) = Cardinality({k \in MemKeys : model[k] # None})

C16_Witness ==
  /\ last.op = "delete" /\ last.found = None
  /\ Memtable_get(memtable, last.key) = Tombstone
  /\ Memtable_len(memtable) = 3
  /\ \E k \in MemKeys : Memtable_get(memtable, k) = None
  /\ \E k \in MemKeys : Memtable_get(memtable, k).tag = "Some"

\* the keys of the add calls are strictly ascending (so no key comes twice)
Ascending(added) ==
  \A i, j \in 1..Len(added) : i < j => LexLess(added[i][1], added[j][1])

\* the entry the add calls gave for k, None when k was not added
AddedFor(added, k) ==
  IF \E i \in 1..Len(added) : added[i][1] = k
  THEN added[CHOOSE i \in 1..Len(added) : added[i][1] = k][2]
  ELSE None

\* C17: a file written by add calls with strictly ascending keys (none
\* included) and finish opens without error, every time it is opened; the
\* reader's num_entries is the number of add calls, and get returns for every
\* key the entry that was added and None for a key that was not.
C17_WriteThenReadRoundTrip ==
  (Pristine /\ Ascending(builder.added)) =>
    /\ last.op = "sst_open" => (last.result = Ok(<<>>) /\ Len(l0_sstables) = 1)
    /\ Len(l0_sstables) = 1 =>
         /\ SSTable_num_entries(l0_sstables[1]) = Len(builder.added)
         /\ \A k \in Keys :
              SSTable_get(l0_sstables[1], disk[SstPath], k)
                = Ok(AddedFor(builder.added, k))
    /\ last.op = "sst_get" => last.result = Ok(AddedFor(builder.added, last.key))

C17_Witness ==
  /\ Pristine /\ Ascending(builder.added) /\ Len(builder.added) = 2
  /\ builder.added[1][2] = Tombstone
  /\ builder.added[2][2] = Some(Half)
  /\ last.op = "sst_get" /\ last.key = builder.added[2][1]
  /\ last.result = Ok(Some(Half))

\* the records of the data region are as the builder wrote them
DataIntact == BTake(disk[SstPath], builder.b.current_offset) = builder.b.writer

\* C18: when the offset the reader's index holds for a key k is the place of
\* a record written for another key, get(k) returns a Corruption error: it
\* returns no value and no tombstone from that record.
C18_KeyMismatchIsCorruption ==
  (Len(l0_sstables) = 1 /\ ~builder.live /\ DataIntact) =>
    \A k \in DOMAIN l0_sstables[1].index :
      \A i \in 1..Len(builder.b.index) :
        (l0_sstables[1].index[k] = U64LE(builder.b.index[i][2])
           /\ builder.b.index[i][1] # k) =>
          /\ SSTable_get(l0_sstables[1], disk[SstPath], k) = ErrCorruption
          /\ (last.op = "sst_get" /\ last.key = k) => last.result = ErrCorruption

C18_Witness ==
  /\ Len(l0_sstables) = 1 /\ ~builder.live /\ DataIntact
  /\ last.op = "sst_get" /\ last.result = ErrCorruption
  /\ \E i \in 1..Len(builder.b.index) :
       /\ l0_sstables[1].index[last.key] = U64LE(builder.b.index[i][2])
       /\ builder.b.index[i][1] # last.key
       /\ builder.added[i][2] = Some(Half)

\* the sequence number in the file name of reader number i
SeqNum(i) == ParseStem(l0_sstables[i].path)

\* C19: in every Tree state, after open and after every flush, the sequence
\* numbers of the readers strictly decrease from front to back.
C19_ReadersNewestFirst ==
  alive =>
    \A i, j \in 1..Len(l0_sstables) : i < j => SeqNum(i) > SeqNum(j)

\* the largest sequence number among the file names of a directory, 0 for none
MaxSeqNum(dir) ==
  IF DOMAIN dir = {} THEN 0
  ELSE CHOOSE n \in {ParseStem(p) : p \in DOMAIN dir} :
         \A p \in DOMAIN dir : ParseStem(p) <= n

\* the files a step has created
NewFiles == (DOMAIN disk') \ (DOMAIN disk)

\* C20: open sets the counter to one more than the largest sequence number
\* among the files it opened (1 for a directory without files); from then on,
\* in the life of that Tree, the counter never decreases, every flush attempt,
\* failed ones included, takes the number the counter holds and moves the
\* counter past it, and the file name of that number is not in the directory
\* before the attempt, so no step creates a file of another name.
C20_CounterPastEveryFile ==
  [][/\ (last'.op = "open" /\ alive') => sst_counter' = MaxSeqNum(disk) + 1
     /\ (alive /\ alive') =>
          /\ sst_counter' >= sst_counter
          /\ sst_counter' # sst_counter =>
               /\ sst_counter' = sst_counter + 1
               /\ last'.op \in {"put", "delete"}
     /\ (alive /\ last'.op \in {"put", "delete"}) =>
          /\ FileStem(sst_counter) \notin DOMAIN disk
          /\ NewFiles \subseteq {FileStem(sst_counter)}
          /\ (alive' /\ (NewFiles # {} \/ last'.result.tag # "Ok")) =>
               sst_counter' = sst_counter + 1]_vars

\* a Tree opened on a directory of two files holds the counter 3
C20_Witness ==
  /\ alive
  /\ last.op = "open"
  /\ DOMAIN disk = {FileStem(1), FileStem(2)}
  /\ sst_counter = 3

\* C21: no put, delete, get, flush or open modifies or removes a file of the
\* directory, so a file whose flush has completed stays as it was written and
\* the set of files only grows.
C21_FilesNeverTouched ==
  [][\A p \in DOMAIN disk : p \in DOMAIN disk' /\ disk'[p] = disk[p]]_vars

\* a get on a Tree whose directory holds the files of two completed flushes
C21_Witness ==
  /\ alive
  /\ last.op = "get"
  /\ flushes = 2
  /\ Cardinality(DOMAIN disk) = 2

\* the records of the data region of a file from byte pos up to byte end, read
\* one after the other: key_len, key, value_len, value, tombstone flag
RECURSIVE RecordsFrom(_, _, _)
RecordsFrom(file, pos, end) ==
  IF pos >= end THEN <<>>
  ELSE LET key_len == LEVal(BSub(file, pos, 4))
           value_len == LEVal(BSub(file, pos + 4 + key_len, 4))
           vpos == pos + 4 + key_len + 4
           entry == IF BSub(file, vpos + value_len, 1) = Repeat(1, 1)
                    THEN Tombstone
                    ELSE Some(BSub(file, vpos, value_len))
       IN <<<<BSub(file, pos + 4, key_len), entry>>>>
            \o RecordsFrom(file, vpos + value_len + 1, end)

\* the records of a file, up to the index_offset its footer names
Records(file) ==
  RecordsFrom(file, 0, LEVal(BSub(file, BLen(file) - FOOTER_SIZE, 8)))

\* C22: a put or delete whose flush succeeds leaves a new file whose records
\* are the entries the memtable held before the flush, tombstones included,
\* each once and in ascending key order; the reader of that file is at the
\* front of the readers, the others follow unchanged; the memtable is empty
\* with size 0; and get returns for every key what it returned before the flush.
C22_FlushKeepsEveryEntry ==
  [][(alive /\ alive' /\ last'.op \in {"put", "delete"}
        /\ Len(l0_sstables') > Len(l0_sstables)) =>
       LET mem == AfterMemtableOp
           p == l0_sstables'[1].path
           recs == Records(disk'[p])
       IN /\ p \notin DOMAIN disk
          /\ Len(recs) = Cardinality(DOMAIN mem.data)
          /\ \A k \in DOMAIN mem.data :
               \E i \in 1..Len(recs) : recs[i] = <<k, mem.data[k]>>
          /\ Ascending(recs)
          /\ l0_sstables'[1] = SSTable_open(p, disk'[p]).val
          /\ Tail(l0_sstables') = l0_sstables
          /\ memtable' = Memtable_new
          /\ Memtable_is_empty(memtable')
          /\ Memtable_size_bytes(memtable') = 0
          /\ \A k \in Keys :
               LSMTree_get(memtable', l0_sstables', disk', k, 0)
                 = LSMTree_get(mem, l0_sstables, disk, k, 0)]_vars

\* a second flush has written a value and a tombstone for a key of the first file
C22_Witness ==
  /\ alive /\ last.op = "put" /\ last.result.tag = "Ok"
  /\ Memtable_is_empty(memtable)
  /\ Len(l0_sstables) = 2
  /\ LET recs == Records(disk[l0_sstables[1].path]) IN
       /\ Len(recs) = 2
       /\ recs[1][2] = Tombstone
       /\ recs[2][2] = Some(Big)
       /\ 2 \in Holders(recs[1][1])

\* the files of a directory that SSTable::open does not open
BadFiles(dir) == {p \in DOMAIN dir : SSTable_open(p, dir[p]).tag # "Ok"}

\* C23: an open of a directory in which some file does not open constructs no
\* Tree and returns the error of such a file, and it constructs a Tree when
\* every file opens.  A flush that fails within add or finish leaves a file
\* that does not open, next to the files of the readers, which still open;
\* from then on the directory keeps a file that does not open, so every later
\* open fails.
C23_OneBadFileFailsOpen ==
  [][/\ last'.op = "open" =>
          IF BadFiles(disk) = {}
          THEN alive' /\ last'.result.tag = "Ok"
          ELSE /\ ~alive'
               /\ \E p \in BadFiles(disk) :
                    last'.result = SSTable_open(p, disk[p])
     /\ (last'.op \in {"put", "delete"} /\ last'.fault.at \in {"add", "finish"}) =>
          /\ NewFiles # {}
          /\ NewFiles \subseteq BadFiles(disk')
          /\ \A i \in 1..Len(l0_sstables) :
               l0_sstables[i].path \in DOMAIN disk' \ BadFiles(disk')
     /\ (disk' # disk /\ BadFiles(disk) # {}) => BadFiles(disk') # {}]_vars

\* an open that failed on a directory holding the file of a flush and the
\* file a failed flush left
C23_Witness ==
  /\ ~alive
  /\ last.op = "open" /\ last.result.tag # "Ok"
  /\ flushes = 1 /\ failed = 1
  /\ DOMAIN disk \ BadFiles(disk) = {FileStem(1)}
  /\ BadFiles(disk) = {FileStem(2)}

\* C24: a key whose latest entry, in the memtable or else in the newest file
\* that holds the key, is the value of length 0 is found by get, with the
\* empty byte string; a key whose latest entry is a tombstone is not found.
\* While all calls have returned Ok this is what the plain map says: a key put
\* with the empty value is found, a deleted key is not.
C24_EmptyValueIsNotDeleted ==
  alive =>
    \A k \in Keys :
      LET latest == IF k \in DOMAIN memtable.data THEN memtable.data[k]
                    ELSE IF Holders(k) # {} THEN EntryIn(Newest(Holders(k)), k)
                    ELSE None
      IN /\ latest = Some(Empty) => GetNow(k) = Ok(Some(Empty))
         /\ latest = Tombstone => GetNow(k) = Ok(None)
         /\ (k \in DOMAIN memtable.data /\ latest = Some(Empty))
              => Memtable_get(memtable, k) = Some(Empty)
         /\ clean =>
              /\ model[k] = Some(Empty) => GetNow(k) = Ok(Some(Empty))
              /\ model[k] = None => GetNow(k) = Ok(None)

\* one key was put with the empty value and flushed, the other was put with
\* the empty value and is in the memtable, and a get finds both
C24_Witness ==
  /\ alive /\ clean
  /\ \E k \in Keys :
       /\ k \notin DOMAIN memtable.data
       /\ Holders(k) # {}
       /\ EntryIn(Newest(Holders(k)), k) = Some(Empty)
       /\ model[k] = Some(Empty)
       /\ GetNow(k) = Ok(Some(Empty))
  /\ \E k \in Keys :
       /\ k \in DOMAIN memtable.data
       /\ memtable.data[k] = Some(Empty)
       /\ GetNow(k) = Ok(Some(Empty))

\* the file was written by add calls whose keys were not strictly ascending,
\* and a reader is open on it
UnsortedFileOpen ==
  /\ Pristine
  /\ ~Ascending(builder.added)
  /\ Len(l0_sstables) = 1

\* the key of the record at the offset the reader's index holds for k
RecordKeyAt(k) ==
  LET f == disk[SstPath]
      o == LEVal(l0_sstables[1].index[k])
  IN BSub(f, o + 4, LEVal(BSub(f, o, 4)))

\* C25 as stated: in a file written from keys that were not strictly
\* ascending, some index entry leads to a record of another key.
C25_UnsortedInputBreaksIndex ==
  UnsortedFileOpen =>
    \E k \in DOMAIN l0_sstables[1].index :
      \/ RecordKeyAt(k) # k
      \/ SSTable_get(l0_sstables[1], disk[SstPath], k) = ErrCorruption

\* the entry of the last add call for k, None when k was not added
LastAddedFor(added, k) ==
  LET S == {i \in 1..Len(added) : added[i][1] = k} IN
  IF S = {} THEN None
  ELSE added[CHOOSE i \in S : \A j \in S : j <= i][2]

\* C25 amended: whatever the order of the keys given to add, repeats
\* included, the file opens, every index entry leads to a record of its own
\* key, and get returns for every key the entry of the last add call for it;
\* num_entries counts the add calls, so with a repeated key it is larger than
\* the number of keys in the reader's index.
C25_UnsortedInputKeepsIndex ==
  Pristine =>
    /\ last.op = "sst_open" => (last.result = Ok(<<>>) /\ Len(l0_sstables) = 1)
    /\ Len(l0_sstables) = 1 =>
         /\ DOMAIN l0_sstables[1].index
              = {builder.added[i][1] : i \in 1..Len(builder.added)}
         /\ \A k \in DOMAIN l0_sstables[1].index : RecordKeyAt(k) = k
         /\ \A k \in Keys :
              SSTable_get(l0_sstables[1], disk[SstPath], k)
                = Ok(LastAddedFor(builder.added, k))
         /\ SSTable_num_entries(l0_sstables[1]) = Len(builder.added)
         /\ SSTable_num_entries(l0_sstables[1])
              >= Cardinality(DOMAIN l0_sstables[1].index)

\* a key was added twice, first with a value and then as a tombstone, and a
\* get through the reader has returned the tombstone
C25_Witness ==
  /\ UnsortedFileOpen
  /\ Len(builder.added) = 2
  /\ builder.added[1][1] = builder.added[2][1]
  /\ builder.added[1][2] = Some(Half)
  /\ builder.added[2][2] = Tombstone
  /\ last.op = "sst_get" /\ last.key = builder.added[1][1]
  /\ last.result = Ok(Tombstone)
  /\ SSTable_num_entries(l0_sstables[1]) = 2
  /\ Cardinality(DOMAIN l0_sstables[1].index) = 1

\* the last put or delete of caller w has returned Ok
Acked(w) == writers[w].pc = "idle" /\ writers[w].entry # None

\* the entry of the last call of caller w is in no file and not in the memtable
InNoFileNoMemtable(w) ==
  LET k == writers[w].key
      e == writers[w].entry
  IN /\ k \notin DOMAIN memtable.data \/ memtable.data[k] # e
     /\ \A p \in DOMAIN disk :
          \A i \in 1..Len(Records(disk[p])) : Records(disk[p])[i] # <<k, e>>

\* the callers that hold a sequence number for a file
Numbered == {w \in Writers : writers[w].pc \in {"build", "open", "clear"}}

\* C26: with the steps of two callers interleaved, the flushes under way hold
\* different sequence numbers and a flush about to create its file finds no
\* file of that name; and an acknowledged put or delete (each caller writing
\* its own key) is in a file or in the memtable unless it was applied to the
\* memtable after a flush of the other caller had iterated the memtable and
\* before that flush replaced it.
C26_DistinctNumbersLostWriteRaced ==
  /\ \A v, w \in Numbered : v # w => writers[v].sst_num # writers[w].sst_num
  /\ \A w \in Writers :
       writers[w].pc = "build" => FileStem(writers[w].sst_num) \notin DOMAIN disk
  /\ \A w \in Writers :
       (Acked(w) /\ ~writers[w].raced) => ~InNoFileNoMemtable(w)

\* an acknowledged put of a value that is in no file and not in the memtable,
\* with both callers idle after two flushes
C26_Witness ==
  /\ \E w \in Writers :
       /\ Acked(w)
       /\ writers[w].entry.tag = "Some"
       /\ InNoFileNoMemtable(w)
       /\ writers[w].raced
  /\ \A w \in Writers : writers[w].pc = "idle"
  /\ Len(l0_sstables) = 2

\* C27: a put or delete that returns Ok leaves the size accumulator of the
\* memtable below 4096; the memtable a put or delete hands to the flush is
\* never empty, so the flush always takes a sequence number, and every file
\* a flush has finished holds at least one entry.
C27_OkLeavesSizeBelowThreshold ==
  [][(alive /\ last'.op \in {"put", "delete"}) =>
       /\ (alive' /\ last'.result.tag = "Ok") =>
            Memtable_size_bytes(memtable') < MEMTABLE_SIZE_THRESHOLD
       /\ ~Memtable_is_empty(AfterMemtableOp)
       /\ Memtable_size_bytes(AfterMemtableOp) >= MEMTABLE_SIZE_THRESHOLD =>
            (alive' => sst_counter' = sst_counter + 1)
       /\ \A p \in NewFiles :
            last'.fault.at \in {"none", "open"} =>
              /\ Len(Records(disk'[p])) >= 1
              /\ LEVal(BSub(disk'[p], BLen(disk'[p]) - 20, 4)) >= 1]_vars

\* a put of a value has returned Ok with a tombstone and the value in the
\* memtable, below the threshold, on a Tree that has flushed twice
C27_Witness ==
  /\ alive
  /\ last.op = "put" /\ last.result.tag = "Ok"
  /\ Memtable_len(memtable) = 2
  /\ Memtable_size_bytes(memtable) = BLen(K1) + BLen(K2) + BLen(Half)
  /\ flushes = 2

\* the reader nearest the front among those that hold an entry for k
Front(k) == CHOOSE i \in Holders(k) : \A j \in Holders(k) : i <= j

\* Option<Value> of a reader as the Option<Vec<u8>> of the Tree
AsOption(entry) == IF entry.tag = "Some" THEN Some(entry.v) ELSE None

\* C28: a get, whatever it returns, leaves the memtable with its size, the
\* readers and their order, the counter and the files as they were.  An entry
\* in the memtable decides it; otherwise the front-most reader that holds the
\* key does: when its read fails the get returns that error, although an older
\* reader holds the key too, and a failure of an older reader is never met.
C28_GetChangesNothing ==
  [][last'.op = "get" =>
       /\ alive' = alive
       /\ memtable' = memtable
       /\ Memtable_size_bytes(memtable') = Memtable_size_bytes(memtable)
       /\ l0_sstables' = l0_sstables
       /\ sst_counter' = sst_counter
       /\ disk' = disk
       /\ LET k == last'.key IN
          IF k \in DOMAIN memtable.data
          THEN last'.result = Ok(AsOption(memtable.data[k]))
          ELSE IF Holders(k) = {} THEN last'.result = Ok(None)
          ELSE IF last'.fault.n = Front(k) THEN last'.result = ErrIo
          ELSE last'.result = Ok(AsOption(EntryIn(Front(k), k)))]_vars

\* a get whose read of the front reader failed while the older reader holds a
\* value for the key
C28_Witness ==
  /\ alive
  /\ last.op = "get" /\ last.result = ErrIo
  /\ last.fault.n = 1
  /\ Len(l0_sstables) = 2
  /\ Holders(last.key) = {1, 2}
  /\ EntryIn(2, last.key) = Some(Big)

====
